---- MODULE Spec2Model ----
(***************************************************************************)
(* Flood area analysis: classify_flood_depth and                           *)
(* calculate_flood_area_by_village of Flood_analysis.ipynb.                *)
(*                                                                         *)
(* Depths are fixed-point numbers in hundredths of a metre (50 is 0.5 m);  *)
(* a cell may also be NaN.  A threshold is such a number together with its *)
(* Python type, int or float, which decides how it is printed in a column  *)
(* name.  Areas are IEEE 754 doubles with their rounding.                  *)
(***************************************************************************)
EXTENDS Integers, Sequences, FiniteSets, TLC

VARIABLES
    \* ---- one call of classify_flood_depth(depth_array, thresholds)
    c_pc,               \* "idle" | "call" | "returned" | "raised"
    depth_array,        \* argument: grid (sequence of rows of cells)
    c_thresholds,       \* argument: <<>> is None, <<t>> is the list t
    c_result,           \* what the call gave: [raised, value]
    \* ---- one call of calculate_flood_area_by_village(...)
    pc,                 \* position in the function body
    thresholds_arg,     \* argument: <<>> is None, <<t>> is the list t
    unit,               \* argument
    shapefile,          \* what gpd.read_file will give: [columns, rows]
    raster_transform,   \* the raster's affine transform: [a, e]
    thresholds,         \* local `thresholds` after defaulting
    villages_gdf,       \* <<>> before gpd.read_file, <<table>> after
    src,                \* raster handle: "unopened" | "open" | "closed"
    flood_data,         \* TRUE once src.read(1) has run
    pixel_area,         \* local `pixel_area` (a double), 0.0 before
    unit_suffix,        \* local `unit_suffix`
    results,            \* local list `results`
    idx,                \* number of rows of villages_gdf iterated so far
    n_mask,             \* number of mask(src, ...) calls issued
    masked_flood,       \* local `masked_flood[0]` of the last mask call
    masked_classified,  \* local `masked_classified`
    raised,             \* "none" or the exception that left the function
    returned,           \* <<>> or <<table>>: the DataFrame returned
    \* ---- the sequence of calls
    mask_seen,          \* what mask(src, ...) gave for polygons 1, 2, ...
    calls               \* the calls that have ended: arguments and outcome

cvars == <<c_pc, depth_array, c_thresholds, c_result>>
avars == <<pc, thresholds_arg, unit, shapefile, raster_transform, thresholds,
           villages_gdf, src, flood_data, pixel_area, unit_suffix, results,
           idx, n_mask, masked_flood, masked_classified, raised, returned>>
svars == <<mask_seen, calls>>
vars == <<c_pc, depth_array, c_thresholds, c_result,
          pc, thresholds_arg, unit, shapefile, raster_transform, thresholds,
          villages_gdf, src, flood_data, pixel_area, unit_suffix, results,
          idx, n_mask, masked_flood, masked_classified, raised, returned,
          mask_seen, calls>>

-----------------------------------------------------------------------------
(* Bounds of the model *)

\* longest threshold list drawn
MaxThr == 2
\* most cells in a grid drawn for classify_flood_depth
MaxCells == 2
\* most cells in a grid drawn as the result of mask(src, ...)
MaxClipCells == 1
\* most polygons in the shapefile
MaxPolys == 2

-----------------------------------------------------------------------------
(* Numbers *)

\* a NaN cell: every comparison with it is false
NaN == -999

\* cell values drawn: NaN, negative, zero, and values around ThrVals
DepthVals == {NaN, -10, 0, 10, 20, 30}

\* numpy's elementwise x > y, x <= y, x == y, x >= y on floats
Gt(x, y) == x # NaN /\ y # NaN /\ x > y
Le(x, y) == x # NaN /\ y # NaN /\ x <= y
Eq(x, y) == x # NaN /\ y # NaN /\ x = y
Ge(x, y) == x # NaN /\ y # NaN /\ x >= y

Abs(x) == IF x < 0 THEN -x ELSE x

\* a threshold: the float h / 100, the int n
PyFloat(h) == [v |-> h, int |-> FALSE]
PyInt(n) == [v |-> 100 * n, int |-> TRUE]

\* what an f-string prints for {threshold}: str of an int is its digits
\* (2 is "2"), str of a float has a decimal point (2.0 is "2.0", 0.25 is
\* "0.25", -0.1 is "-0.1")
FmtThreshold(t) ==
    IF t.int THEN ToString(t.v \div 100)
    ELSE (IF t.v < 0 THEN "-" ELSE "")
             \o ToString(Abs(t.v) \div 100) \o "."
             \o (IF Abs(t.v) % 10 = 0 THEN ToString((Abs(t.v) % 100) \div 10)
                 ELSE (IF Abs(t.v) % 100 < 10 THEN "0" ELSE "")
                          \o ToString(Abs(t.v) % 100))

-----------------------------------------------------------------------------
(* Doubles *)

\* IEEE 754 binary64 values >= 0 as [e, h, l]: the value is
\* (h * 2^26 + l) * 2^e with a 53-bit significand (2^26 <= h < 2^27,
\* 0 <= l < 2^26); zero is [e |-> 0, h |-> 0, l |-> 0].  Results are rounded
\* to nearest, ties to even, as the hardware does.
TwoP24 == 16777216
TwoP25 == 33554432
TwoP26 == 67108864
TwoP27 == 134217728

\* 2^n for n in 0..30
Pow2Table ==
    <<1, 2, 4, 8, 16, 32, 64, 128, 256, 512, 1024, 2048, 4096, 8192, 16384,
      32768, 65536, 131072, 262144, 524288, 1048576, 2097152, 4194304,
      8388608, 16777216, 33554432, 67108864, 134217728, 268435456,
      536870912, 1073741824>>
Pow2(n) == Pow2Table[n + 1]

FltZero == [e |-> 0, h |-> 0, l |-> 0]

\* what lies below the last bit kept: nothing, less than half a unit, half a
\* unit, more than half a unit
FracZero == 0
FracBelow == 1
FracHalf == 2
FracAbove == 3

\* the fraction rem / 2^s followed by a fraction fr of its last unit (s >= 1)
FracOf(rem, s, fr) ==
    IF rem > Pow2(s - 1) THEN FracAbove
    ELSE IF rem = Pow2(s - 1)
    THEN (IF fr = FracZero THEN FracHalf ELSE FracAbove)
    ELSE IF rem = 0 THEN (IF fr = FracZero THEN FracZero ELSE FracBelow)
    ELSE FracBelow

\* the number of bits by which hh * 2^26 exceeds 53 bits (hh < 2^31)
ExcessBits(hh) ==
    IF hh < TwoP27 THEN 0
    ELSE IF hh < 2 * TwoP27 THEN 1
    ELSE IF hh < 4 * TwoP27 THEN 2
    ELSE IF hh < 8 * TwoP27 THEN 3
    ELSE 4

\* the double nearest to (hh * 2^26 + ll + fraction fr) * 2^e, for
\* 2^26 <= hh < 2^31 and 0 <= ll < 2^26
FltRound(hh, ll, e, fr) ==
    LET s == ExcessBits(hh)
        p == Pow2(s)
        h1 == hh \div p
        l1 == (hh % p) * Pow2(26 - s) + (ll \div p)
        f1 == IF s = 0 THEN fr ELSE FracOf(ll % p, s, fr)
        up == f1 = FracAbove \/ (f1 = FracHalf /\ l1 % 2 = 1)
        l2 == IF up THEN l1 + 1 ELSE l1
        h2 == IF l2 = TwoP26 THEN h1 + 1 ELSE h1
    IN  IF h2 = TwoP27
        THEN [e |-> e + s + 1, h |-> TwoP26, l |-> 0]
        ELSE [e |-> e + s, h |-> h2, l |-> l2 % TwoP26]

\* (hh * 2^26 + ll) * 2^e with the significand shifted left until it has at
\* least 53 bits (hh * 2^26 + ll > 0)
RECURSIVE FltNormal(_, _, _)
FltNormal(hh, ll, e) ==
    IF hh >= TwoP26 THEN FltRound(hh, ll, e, FracZero)
    ELSE FltNormal(2 * hh + (ll \div TwoP25), (ll % TwoP25) * 2, e - 1)

\* float(n) of an int 0 <= n < 2^31
FltFromInt(n) ==
    IF n = 0 THEN FltZero ELSE FltNormal(n \div TwoP26, n % TwoP26, 0)

\* k * x for an int 0 <= k <= 15 (np.int64 times float)
FltMul(k, x) ==
    IF k = 0 \/ x.h = 0 THEN FltZero
    ELSE LET lo == k * x.l
         IN  FltRound(k * x.h + (lo \div TwoP26), lo % TwoP26, x.e, FracZero)

\* long division of n by d, c bits at a time: (hh * 2^26 + ll) * 2^e is the
\* quotient so far and r < d the remainder; it ends when the quotient has
\* 53 bits or more, the remainder telling which way to round
RECURSIVE DivDigits(_, _, _, _, _, _)
DivDigits(r, d, c, hh, ll, e) ==
    IF hh >= TwoP26
    THEN FltRound(hh, ll, e,
                  IF r = 0 THEN FracZero
                  ELSE IF 2 * r < d THEN FracBelow
                  ELSE IF 2 * r = d THEN FracHalf
                  ELSE FracAbove)
    ELSE DivDigits((r * Pow2(c)) % d, d, c,
                   hh * Pow2(c) + (ll \div Pow2(26 - c)),
                   (ll % Pow2(26 - c)) * Pow2(c) + ((r * Pow2(c)) \div d),
                   e - c)

\* n / d for ints 0 <= n < 2^30 and 0 < d < 2^30 (float(n) / float(d))
FltDiv(n, d) ==
    IF n = 0 THEN FltZero
    ELSE DivDigits(n % d, d, IF d < TwoP27 THEN 4 ELSE 1,
                   (n \div d) \div TwoP26, (n \div d) % TwoP26, 0)

-----------------------------------------------------------------------------
(* Grids *)

GridsOfShape(r, c) == [1..r -> [1..c -> DepthVals]]

\* the 3x3 grid [[0,0.3,0.6],[1.5,2.5,3.5],[0,0,0]]
ScenarioGrid == << <<0, 30, 60>>, <<150, 250, 350>>, <<0, 0, 0>> >>

\* a 2x2 grid with a NaN cell, a negative cell, a dry cell and a wet cell
NoDataGrid == << <<NaN, -10>>, <<0, 20>> >>

\* the empty grid, every grid of at most n cells, ScenarioGrid and NoDataGrid
GridsUpTo(n) ==
    {<<>>} \cup {ScenarioGrid, NoDataGrid}
    \cup UNION {GridsOfShape(s[1], s[2]) :
                  s \in {t \in (1..n) \X (1..n) : t[1] * t[2] <= n}}

\* depth_array arguments drawn for classify_flood_depth
Grids == GridsUpTo(MaxCells)

\* grids drawn as masked_flood[0], the result of mask(src, [geom], crop=True)
ClipGrids == GridsUpTo(MaxClipCells)

Shape(g) == IF g = <<>> THEN <<0, 0>> ELSE <<Len(g), Len(g[1])>>
Cells(g) == {<<r, c>> : r \in 1..Len(g), c \in 1..(IF g = <<>> THEN 0 ELSE Len(g[1]))}

\* the cell of g at position rc
At(g, rc) == g[rc[1]][rc[2]]

-----------------------------------------------------------------------------
(* Threshold lists *)

\* threshold values drawn: one negative float and two positive floats
ThrVals == {PyFloat(-10), PyFloat(10), PyFloat(20)}

\* [0.5, 1.0, 2.0, 3.0]
DefaultThresholds ==
    <<PyFloat(50), PyFloat(100), PyFloat(200), PyFloat(300)>>

SeqsUpTo(S, n) == UNION {[1..k -> S] : k \in 0..n}

\* an unsorted list with repeated values, [0.1, 0.2, 0.1, 0.2]: its second
\* and fourth band (both 0.1 < depth <= 0.2) get the same field name
CollidingThresholds ==
    <<PyFloat(10), PyFloat(20), PyFloat(10), PyFloat(20)>>

\* custom_thresholds of the notebook's example call:
\* [0.1, 0.25, 0.5, 0.75, 1.0, 1.5, 2], the last one an int
NotebookThresholds ==
    <<PyFloat(10), PyFloat(25), PyFloat(50), PyFloat(75), PyFloat(100),
      PyFloat(150), PyInt(2)>>

\* a list of ints, [1, 2]
IntThresholds == <<PyInt(1), PyInt(2)>>

\* lists a caller may pass: every list over ThrVals, the default list,
\* CollidingThresholds, NotebookThresholds and IntThresholds
ThrLists ==
    SeqsUpTo(ThrVals, MaxThr)
    \cup {DefaultThresholds, CollidingThresholds, NotebookThresholds,
          IntThresholds}

\* the `thresholds` argument: None (<<>>) or a list (<<t>>)
ThrArgs == {<<>>} \cup {<<t>> : t \in ThrLists}

\* variant of DefaultIfNone: the default list is [0.5, 1.0, 2.0]
DefaultIfNone_ShortList(arg) ==
    IF arg = <<>> THEN <<PyFloat(50), PyFloat(100), PyFloat(200)>> ELSE arg[1]

\* `if thresholds is None: thresholds = [0.5, 1.0, 2.0, 3.0]`
DefaultIfNone(arg) == IF arg = <<>> THEN DefaultThresholds ELSE arg[1]

-----------------------------------------------------------------------------
(* classify_flood_depth *)

\* variant of InBand: bands closed below and open above
InBand_StrictUpper(d, th, i) ==
    IF i = 1 THEN Gt(d, 0) /\ Gt(th[1].v, d)
             ELSE Ge(d, th[i-1].v) /\ Gt(th[i].v, d)

\* the boolean mask of loop iteration i (1-based: Python's i is i - 1)
InBand(d, th, i) ==
    IF i = 1 THEN Gt(d, 0) /\ Le(d, th[1].v)
             ELSE Gt(d, th[i-1].v) /\ Le(d, th[i].v)

\* variant of LoopAssign: assigns Python's i instead of i + 1
RECURSIVE LoopAssign_ZeroBased(_, _, _, _)
LoopAssign_ZeroBased(d, th, i, c) ==
    IF i > Len(th) THEN c
    ELSE LoopAssign_ZeroBased(d, th, i + 1,
                              IF InBand(d, th, i) THEN i - 1 ELSE c)

\* variant of LoopAssign: a cell already given a band keeps it
RECURSIVE LoopAssign_FirstWins(_, _, _, _)
LoopAssign_FirstWins(d, th, i, c) ==
    IF i > Len(th) THEN c
    ELSE LoopAssign_FirstWins(d, th, i + 1,
                              IF InBand(d, th, i) /\ c = 0 THEN i ELSE c)

\* the for loop over enumerate(thresholds), iterations i..Len(th), on one
\* cell holding category c: a later assignment overwrites an earlier one
RECURSIVE LoopAssign(_, _, _, _)
LoopAssign(d, th, i, c) ==
    IF i > Len(th) THEN c
    ELSE LoopAssign(d, th, i + 1, IF InBand(d, th, i) THEN i ELSE c)

\* variant of LastCategory: len(thresholds) + 2
LastCategory_OffByOne(d, th, c) ==
    IF Gt(d, th[Len(th)].v) THEN Len(th) + 2 ELSE c

\* variant of LastCategory: depth_array >= thresholds[-1]
LastCategory_GreaterEqual(d, th, c) ==
    IF Ge(d, th[Len(th)].v) THEN Len(th) + 1 ELSE c

\* classified[depth_array > thresholds[-1]] = len(thresholds) + 1
LastCategory(d, th, c) ==
    IF Gt(d, th[Len(th)].v) THEN Len(th) + 1 ELSE c

\* variant of ClassifyCell: classified = depth_array.copy() for zeros_like
ClassifyCell_StartsFromCopy(d, th) ==
    LET noflood == IF Eq(d, 0) THEN 0 ELSE d
    IN  LastCategory(d, th, LoopAssign(d, th, 1, noflood))

\* one cell through the body: zeros_like, the == 0 assignment, the loop,
\* the last category
ClassifyCell(d, th) ==
    LET zeroed == 0
        noflood == IF Eq(d, 0) THEN 0 ELSE zeroed
    IN  LastCategory(d, th, LoopAssign(d, th, 1, noflood))

\* variant of classify_flood_depth: an empty depth_array raises too
classify_flood_depth_EmptyGridRaises(depth, arg) ==
    LET th == DefaultIfNone(arg)
    IN  IF th = <<>> \/ depth = <<>>
        THEN [raised |-> "IndexError", value |-> <<>>]
        ELSE [raised |-> "none",
              value  |-> [r \in 1..Len(depth) |->
                            [c \in 1..Len(depth[r]) |->
                               ClassifyCell(depth[r][c], th)]]]

\* the call: thresholds[-1] of an empty list raises IndexError
classify_flood_depth(depth, arg) ==
    LET th == DefaultIfNone(arg)
    IN  IF th = <<>>
        THEN [raised |-> "IndexError", value |-> <<>>]
        ELSE [raised |-> "none",
              value  |-> [r \in 1..Len(depth) |->
                            [c \in 1..Len(depth[r]) |->
                               ClassifyCell(depth[r][c], th)]]]


-----------------------------------------------------------------------------
(* calculate_flood_area_by_village: inputs *)

Units == {"m2", "km2", "hectare", "rai", "acre"}

\* the raster's transform.a and transform.e (north-up: e is negative)
Transforms == {[a |-> 10, e |-> -10], [a |-> 40, e |-> -40]}

\* row j of the shapefile (index label j - 1)
VillageRow(j) ==
    [ADM3_EN |-> "EN" \o ToString(j), ADM3_TH |-> "TH" \o ToString(j),
     geometry |-> j]

\* a shapefile: its attribute columns (shared by all rows) and its rows
Shapefiles ==
    {[columns |-> cols, rows |-> [j \in 1..k |-> VillageRow(j)]] :
        cols \in SUBSET {"ADM3_EN", "ADM3_TH"}, k \in 0..MaxPolys}

-----------------------------------------------------------------------------
(* calculate_flood_area_by_village: helpers *)

\* pixel_area_m2 = abs(transform.a * transform.e)
PixelAreaM2(t) == Abs(t.a * t.e)

\* variant of UnitDivisor: hectare divided by 1600
UnitDivisor_HectareAsRai(u) ==
    CASE u = "m2" -> 1
      [] u = "km2" -> 1000000
      [] u = "hectare" -> 1600
      [] u = "rai" -> 1600
      [] OTHER -> 0

\* the if/elif chain: the divisor of each unit, 0 for the else branch
UnitDivisor(u) ==
    CASE u = "m2" -> 1
      [] u = "km2" -> 1000000
      [] u = "hectare" -> 10000
      [] u = "rai" -> 1600
      [] OTHER -> 0

\* pixel_area of a known unit: pixel_area_m2 itself for m2, otherwise
\* pixel_area_m2 / divisor
PixelArea(t, u) ==
    IF u = "m2" THEN FltFromInt(PixelAreaM2(t))
    ELSE FltDiv(PixelAreaM2(t), UnitDivisor(u))

\* unit_suffix (the superscript two of the source is written 2)
UnitSuffix(u) ==
    CASE u = "m2" -> " (m2)"
      [] u = "km2" -> " (km2)"
      [] u = "hectare" -> " (hectares)"
      [] u = "rai" -> " (rai)"
      [] OTHER -> ""

\* variant of VillageGet: the presence test looks at the identifier column
VillageGet_ChecksIdColumn(table, j, column, default) ==
    IF "ADM3_EN" \in table.columns
    THEN (IF column = "ADM3_EN" THEN table.rows[j].ADM3_EN
                                ELSE table.rows[j].ADM3_TH)
    ELSE default

\* village.get(column, default) on a row of the table
VillageGet(table, j, column, default) ==
    IF column \in table.columns
    THEN (IF column = "ADM3_EN" THEN table.rows[j].ADM3_EN
                                ELSE table.rows[j].ADM3_TH)
    ELSE default

\* a dict in insertion order: d[k] = v
DictSet(d, k, v) ==
    IF \E p \in 1..Len(d) : d[p][1] = k
    THEN [p \in 1..Len(d) |-> IF d[p][1] = k THEN <<k, v>> ELSE d[p]]
    ELSE Append(d, <<k, v>>)

\* variant of FieldName: without the `if i == 0` branch (thresholds[-1] is
\* then the last threshold)
FieldName_NoFirstBranch(th, i, suffix) ==
    FmtThreshold(th[IF i = 1 THEN Len(th) ELSE i - 1]) \o "-"
        \o FmtThreshold(th[i]) \o "m" \o suffix

\* field_name of loop iteration i (1-based)
FieldName(th, i, suffix) ==
    IF i = 1
    THEN "0-" \o FmtThreshold(th[1]) \o " m" \o suffix
    ELSE FmtThreshold(th[i-1]) \o "-" \o FmtThreshold(th[i]) \o "m"
             \o suffix

LastFieldName(th, suffix) ==
    ">" \o FmtThreshold(th[Len(th)]) \o " m" \o suffix

\* variant of TotalCount: masked_classified > 0
TotalCount_OnlyFlooded(mc) == Cardinality({rc \in Cells(mc) : Gt(At(mc, rc), 0)})

\* variant of TotalCount: masked_classified.shape[0]
TotalCount_Rows(mc) == Len(mc)

\* np.sum(masked_classified >= 0)
TotalCount(mc) == Cardinality({rc \in Cells(mc) : Ge(At(mc, rc), 0)})

\* np.sum(masked_classified == k)
CategoryCount(mc, k) == Cardinality({rc \in Cells(mc) : Eq(At(mc, rc), k)})

\* variant of FloodedCount: masked_classified >= 0
FloodedCount_IncludesZero(mc) == Cardinality({rc \in Cells(mc) : Ge(At(mc, rc), 0)})

\* np.sum(masked_classified > 0)
FloodedCount(mc) == Cardinality({rc \in Cells(mc) : Gt(At(mc, rc), 0)})

\* the for loop adding the threshold fields, iterations i..Len(th)
RECURSIVE AddBandFields(_, _, _, _, _, _)
AddBandFields(d, mc, th, i, pa, suffix) ==
    IF i > Len(th) THEN d
    ELSE AddBandFields(
             DictSet(d, FieldName(th, i, suffix),
                     FltMul(CategoryCount(mc, i), pa)),
             mc, th, i + 1, pa, suffix)

\* village_result of the village at position j (index label j - 1)
VillageResult(table, j, mc, th, pa, suffix) ==
    LET label == j - 1
        d0 == << <<"village_id", VillageGet(table, j, "ADM3_EN", label)>>,
                 <<"village_name",
                   VillageGet(table, j, "ADM3_TH",
                              "Village_" \o ToString(label))>>,
                 <<"total_area" \o suffix, FltMul(TotalCount(mc), pa)>>,
                 <<"no_flood_area" \o suffix,
                   FltMul(CategoryCount(mc, 0), pa)>> >>
        d1 == AddBandFields(d0, mc, th, 1, pa, suffix)
        d2 == DictSet(d1, LastFieldName(th, suffix),
                      FltMul(CategoryCount(mc, Len(th) + 1), pa))
    IN  DictSet(d2, "total_flooded_area" \o suffix,
                FltMul(FloodedCount(mc), pa))

\* variant of AppendResult: results.insert(0, village_result)
AppendResult_Prepend(rs, row) == <<row>> \o rs

\* results.append(village_result)
AppendResult(rs, row) == Append(rs, row)


-----------------------------------------------------------------------------
(* calculate_flood_area_by_village: the call, statement by statement *)

\* what mask(src, [geometry], crop=True) gives: a grid, or the ValueError
MaskGrid(g) == [raises |-> FALSE, grid |-> g]
MaskNoOverlap == [raises |-> TRUE, grid |-> <<>>]

\* mask is a function of the raster and the polygon: polygon j clipped
\* again gives what it gave before
MaskMayGive(j, out) == IF j > Len(mask_seen) THEN TRUE ELSE mask_seen[j] = out
MaskSeen(j, out) == IF j > Len(mask_seen) THEN Append(mask_seen, out)
                                          ELSE mask_seen

\* the first call of a sequence
FirstCall == mask_seen = <<>> /\ calls = <<>>

AggIdle ==
    /\ pc = "idle" /\ thresholds_arg = <<>> /\ unit = "m2"
    /\ shapefile = [columns |-> {}, rows |-> <<>>]
    /\ raster_transform = [a |-> 10, e |-> -10]
    /\ thresholds = <<>> /\ villages_gdf = <<>> /\ src = "unopened"
    /\ flood_data = FALSE /\ pixel_area = FltZero /\ unit_suffix = ""
    /\ results = <<>> /\ idx = 0 /\ n_mask = 0 /\ masked_flood = <<>>
    /\ masked_classified = <<>> /\ raised = "none" /\ returned = <<>>

ClassifyIdle ==
    /\ c_pc = "idle" /\ depth_array = <<>> /\ c_thresholds = <<>>
    /\ c_result = [raised |-> "none", value |-> <<>>]

\* a call of calculate_flood_area_by_village with its arguments and files
Init ==
    /\ ClassifyIdle
    /\ FirstCall
    /\ pc = "L83"
    /\ thresholds_arg \in ThrArgs
    /\ unit \in Units
    /\ shapefile \in Shapefiles
    /\ raster_transform \in Transforms
    /\ thresholds = <<>> /\ villages_gdf = <<>> /\ src = "unopened"
    /\ flood_data = FALSE /\ pixel_area = FltZero /\ unit_suffix = ""
    /\ results = <<>> /\ idx = 0 /\ n_mask = 0 /\ masked_flood = <<>>
    /\ masked_classified = <<>> /\ raised = "none" /\ returned = <<>>

\* variant of SetDefaultThresholds: the default is a module-level list that
\* a call with a list replaces, so an omitted argument gives the list of the
\* call before
SetDefaultThresholds_RemembersLast ==
    /\ pc = "L83"
    /\ thresholds' = IF thresholds_arg = <<>> /\ calls # <<>>
                      THEN DefaultIfNone(calls[Len(calls)].thresholds)
                      ELSE DefaultIfNone(thresholds_arg)
    /\ pc' = "L87"
    /\ UNCHANGED <<thresholds_arg, unit, shapefile, raster_transform,
                   villages_gdf, src, flood_data, pixel_area, unit_suffix,
                   results, idx, n_mask, masked_flood, masked_classified,
                   raised, returned>>
    /\ UNCHANGED cvars
    /\ UNCHANGED svars

\* if thresholds is None: thresholds = [0.5, 1.0, 2.0, 3.0]
SetDefaultThresholds ==
    /\ pc = "L83"
    /\ thresholds' = DefaultIfNone(thresholds_arg)
    /\ pc' = "L87"
    /\ UNCHANGED <<thresholds_arg, unit, shapefile, raster_transform,
                   villages_gdf, src, flood_data, pixel_area, unit_suffix,
                   results, idx, n_mask, masked_flood, masked_classified,
                   raised, returned>>
    /\ UNCHANGED cvars
    /\ UNCHANGED svars

\* villages_gdf = gpd.read_file(villages_shapefile_path)
ReadVillages ==
    /\ pc = "L87"
    /\ villages_gdf' = <<shapefile>>
    /\ pc' = "L89"
    /\ UNCHANGED <<thresholds_arg, unit, shapefile, raster_transform,
                   thresholds, src, flood_data, pixel_area, unit_suffix,
                   results, idx, n_mask, masked_flood, masked_classified,
                   raised, returned>>
    /\ UNCHANGED cvars
    /\ UNCHANGED svars

\* with rasterio.open(flood_raster_path) as src:
OpenRaster ==
    /\ pc = "L89"
    /\ src' = "open"
    /\ pc' = "L90"
    /\ UNCHANGED <<thresholds_arg, unit, shapefile, raster_transform,
                   thresholds, villages_gdf, flood_data, pixel_area,
                   unit_suffix, results, idx, n_mask, masked_flood,
                   masked_classified, raised, returned>>
    /\ UNCHANGED cvars
    /\ UNCHANGED svars

\* flood_data = src.read(1); transform = src.transform; crs = src.crs
ReadBand ==
    /\ pc = "L90"
    /\ src = "open"
    /\ flood_data' = TRUE
    /\ pc' = "L95"
    /\ UNCHANGED <<thresholds_arg, unit, shapefile, raster_transform,
                   thresholds, villages_gdf, src, pixel_area, unit_suffix,
                   results, idx, n_mask, masked_flood, masked_classified,
                   raised, returned>>
    /\ UNCHANGED cvars
    /\ UNCHANGED svars

\* pixel_area_m2 = abs(...); the if/elif chain of a known unit; results = []
ResolveUnit ==
    /\ pc = "L95"
    /\ UnitDivisor(unit) # 0
    /\ pixel_area' = PixelArea(raster_transform, unit)
    /\ unit_suffix' = UnitSuffix(unit)
    /\ results' = <<>>
    /\ pc' = "L115"
    /\ UNCHANGED <<thresholds_arg, unit, shapefile, raster_transform,
                   thresholds, villages_gdf, src, flood_data, idx, n_mask,
                   masked_flood, masked_classified, raised, returned>>
    /\ UNCHANGED cvars
    /\ UNCHANGED svars

\* else: raise ValueError("Unit must be one of: ..."); the with block
\* closes src as the exception leaves it
RaiseInvalidUnit ==
    /\ pc = "L95"
    /\ UnitDivisor(unit) = 0
    /\ raised' = "ValueError: Unit must be one of: 'm2', 'km2', 'hectare', 'rai'"
    /\ src' = "closed"
    /\ pc' = "raised"
    /\ UNCHANGED <<thresholds_arg, unit, shapefile, raster_transform,
                   thresholds, villages_gdf, flood_data, pixel_area,
                   unit_suffix, results, idx, n_mask, masked_flood,
                   masked_classified, returned>>
    /\ UNCHANGED cvars
    /\ UNCHANGED svars

\* one iteration of `for idx, village in villages_gdf.iterrows()`:
\* mask returns a grid, it is classified, the row is built and appended
ProcessVillage ==
    /\ pc = "L115"
    /\ idx < Len(villages_gdf[1].rows)
    /\ src = "open"
    /\ \E clip \in ClipGrids :
         LET mc == classify_flood_depth(clip, <<thresholds>>).value
         IN  /\ MaskMayGive(idx + 1, MaskGrid(clip))
             /\ mask_seen' = MaskSeen(idx + 1, MaskGrid(clip))
             /\ classify_flood_depth(clip, <<thresholds>>).raised = "none"
             /\ masked_flood' = clip
             /\ masked_classified' = mc
             /\ results' = AppendResult(results,
                                VillageResult(villages_gdf[1], idx + 1, mc,
                                              thresholds, pixel_area,
                                              unit_suffix))
    /\ n_mask' = n_mask + 1
    /\ idx' = idx + 1
    /\ UNCHANGED <<pc, thresholds_arg, unit, shapefile, raster_transform,
                   thresholds, villages_gdf, src, flood_data, pixel_area,
                   unit_suffix, raised, returned>>
    /\ UNCHANGED calls
    /\ UNCHANGED cvars

\* variant of MaskRaises: src = rasterio.open(...) without the with block,
\* the exception leaves the handle open
MaskRaises_LeavesOpen ==
    /\ pc = "L115"
    /\ idx < Len(villages_gdf[1].rows)
    /\ src = "open"
    /\ MaskMayGive(idx + 1, MaskNoOverlap)
    /\ mask_seen' = MaskSeen(idx + 1, MaskNoOverlap)
    /\ n_mask' = n_mask + 1
    /\ raised' = "ValueError: Input shapes do not overlap raster"
    /\ pc' = "raised"
    /\ UNCHANGED <<thresholds_arg, unit, shapefile, raster_transform,
                   thresholds, villages_gdf, src, flood_data, pixel_area,
                   unit_suffix, results, idx, masked_flood,
                   masked_classified, returned>>
    /\ UNCHANGED calls
    /\ UNCHANGED cvars

\* variant of MaskRaises: the error is caught around the loop and the rows
\* built so far are returned
MaskRaises_ReturnsPartial ==
    /\ pc = "L115"
    /\ idx < Len(villages_gdf[1].rows)
    /\ src = "open"
    /\ MaskMayGive(idx + 1, MaskNoOverlap)
    /\ mask_seen' = MaskSeen(idx + 1, MaskNoOverlap)
    /\ n_mask' = n_mask + 1
    /\ raised' = "ValueError: Input shapes do not overlap raster"
    /\ returned' = <<results>>
    /\ src' = "closed"
    /\ pc' = "raised"
    /\ UNCHANGED <<thresholds_arg, unit, shapefile, raster_transform,
                   thresholds, villages_gdf, flood_data, pixel_area,
                   unit_suffix, results, idx, masked_flood,
                   masked_classified>>
    /\ UNCHANGED calls
    /\ UNCHANGED cvars

\* mask(src, village_geom, crop=True) raises
\* ValueError("Input shapes do not overlap raster"): nothing catches it
MaskRaises ==
    /\ pc = "L115"
    /\ idx < Len(villages_gdf[1].rows)
    /\ src = "open"
    /\ MaskMayGive(idx + 1, MaskNoOverlap)
    /\ mask_seen' = MaskSeen(idx + 1, MaskNoOverlap)
    /\ n_mask' = n_mask + 1
    /\ raised' = "ValueError: Input shapes do not overlap raster"
    /\ src' = "closed"
    /\ pc' = "raised"
    /\ UNCHANGED <<thresholds_arg, unit, shapefile, raster_transform,
                   thresholds, villages_gdf, flood_data, pixel_area,
                   unit_suffix, results, idx, masked_flood,
                   masked_classified, returned>>
    /\ UNCHANGED calls
    /\ UNCHANGED cvars

\* mask returns a grid and classify_flood_depth raises (thresholds[-1] of an
\* empty list): nothing catches it
ClassifyRaises ==
    /\ pc = "L115"
    /\ idx < Len(villages_gdf[1].rows)
    /\ src = "open"
    /\ \E clip \in ClipGrids :
         /\ MaskMayGive(idx + 1, MaskGrid(clip))
         /\ mask_seen' = MaskSeen(idx + 1, MaskGrid(clip))
         /\ classify_flood_depth(clip, <<thresholds>>).raised # "none"
         /\ masked_flood' = clip
         /\ raised' = classify_flood_depth(clip, <<thresholds>>).raised
    /\ n_mask' = n_mask + 1
    /\ src' = "closed"
    /\ pc' = "raised"
    /\ UNCHANGED <<thresholds_arg, unit, shapefile, raster_transform,
                   thresholds, villages_gdf, flood_data, pixel_area,
                   unit_suffix, results, idx, masked_classified, returned>>
    /\ UNCHANGED calls
    /\ UNCHANGED cvars

\* the loop ends, the with block closes src, return pd.DataFrame(results)
ReturnTable ==
    /\ pc = "L115"
    /\ idx = Len(villages_gdf[1].rows)
    /\ src' = "closed"
    /\ returned' = <<results>>
    /\ pc' = "done"
    /\ UNCHANGED <<thresholds_arg, unit, shapefile, raster_transform,
                   thresholds, villages_gdf, flood_data, pixel_area,
                   unit_suffix, results, idx, n_mask, masked_flood,
                   masked_classified, raised>>
    /\ UNCHANGED cvars
    /\ UNCHANGED svars

Next ==
    \/ SetDefaultThresholds
    \/ ReadVillages
    \/ OpenRaster
    \/ ReadBand
    \/ ResolveUnit
    \/ RaiseInvalidUnit
    \/ ProcessVillage
    \/ MaskRaises
    \/ ClassifyRaises
    \/ ReturnTable

Spec == Init /\ [][Next]_vars

-----------------------------------------------------------------------------
(* classify_flood_depth: one call on drawn arguments *)

InitClassify ==
    /\ AggIdle
    /\ FirstCall
    /\ c_pc = "call"
    /\ depth_array \in Grids
    /\ c_thresholds \in ThrArgs
    /\ c_result = [raised |-> "none", value |-> <<>>]

ClassifyReturns ==
    /\ c_pc = "call"
    /\ classify_flood_depth(depth_array, c_thresholds).raised = "none"
    /\ c_result' = classify_flood_depth(depth_array, c_thresholds)
    /\ c_pc' = "returned"
    /\ UNCHANGED <<depth_array, c_thresholds>>
    /\ UNCHANGED avars
    /\ UNCHANGED svars

ClassifyCallRaises ==
    /\ c_pc = "call"
    /\ classify_flood_depth(depth_array, c_thresholds).raised # "none"
    /\ c_result' = classify_flood_depth(depth_array, c_thresholds)
    /\ c_pc' = "raised"
    /\ UNCHANGED <<depth_array, c_thresholds>>
    /\ UNCHANGED avars
    /\ UNCHANGED svars

NextClassify == ClassifyReturns \/ ClassifyCallRaises

SpecClassify == InitClassify /\ [][NextClassify]_vars

-----------------------------------------------------------------------------
(* A sequence of calls in one interpreter session *)

\* most calls in a sequence
MaxCalls == 3

\* the `thresholds` argument of a later call: omitted, the default list
\* written out, a custom list, or what an earlier call was given
LaterArgs ==
    {<<>>, <<DefaultThresholds>>, << <<PyFloat(10), PyFloat(20)>> >>}
    \cup {calls[k].thresholds : k \in 1..Len(calls)}

\* amounts (hundredths of a metre) by which a later call raises one
\* threshold (0.1 and 0.5: the raised threshold is a float)
Raises == {10, 50}

\* the lists that are th with one threshold raised and no other changed,
\* the raised threshold staying below the next one
RaisedLists(th) ==
    {[th EXCEPT ![ir[1]] = PyFloat(th[ir[1]].v + ir[2])] :
        ir \in {x \in (1..Len(th)) \X Raises :
                   x[1] < Len(th) => th[x[1]].v + x[2] < th[x[1] + 1].v}}

\* calculate_flood_area_by_village has ended and is called again on the same
\* files with the same unit: the new call starts with a frame of its own in
\* which none of the names of the function body is bound yet
CallAgain ==
    /\ pc \in {"done", "raised"}
    /\ Len(calls) < MaxCalls - 1
    /\ calls' = Append(calls, [thresholds |-> thresholds_arg,
                               raised |-> raised, returned |-> returned])
    /\ thresholds_arg' \in LaterArgs
    /\ pc' = "L83"
    /\ idx' = 0
    /\ n_mask' = 0
    /\ raised' = "none"
    /\ returned' = <<>>
    /\ thresholds' = <<>> /\ villages_gdf' = <<>> /\ src' = "unopened"
    /\ flood_data' = FALSE /\ pixel_area' = FltZero /\ unit_suffix' = ""
    /\ results' = <<>> /\ masked_flood' = <<>> /\ masked_classified' = <<>>
    /\ UNCHANGED <<unit, shapefile, raster_transform, mask_seen>>
    /\ UNCHANGED cvars

\* classify_flood_depth has ended and is called again on the same array
ClassifyAgain ==
    /\ c_pc \in {"returned", "raised"}
    /\ Len(calls) < MaxCalls - 1
    /\ calls' = Append(calls, [thresholds |-> c_thresholds,
                               result |-> c_result])
    /\ c_thresholds' \in
         LaterArgs \cup {<<t>> : t \in RaisedLists(DefaultIfNone(c_thresholds))}
    /\ c_pc' = "call"
    /\ c_result' = [raised |-> "none", value |-> <<>>]
    /\ UNCHANGED <<depth_array, mask_seen>>
    /\ UNCHANGED avars

\* the files and the unit of the sequences of aggregator calls
InitCalls ==
    /\ Init
    /\ unit \in {"km2", "acre"}
    /\ raster_transform = [a |-> 10, e |-> -10]
    /\ shapefile.columns = {"ADM3_EN", "ADM3_TH"}

NextCalls ==
    \/ Next
    \/ NextClassify
    \/ CallAgain
    \/ ClassifyAgain

SpecCalls == (InitCalls \/ InitClassify) /\ [][NextCalls]_vars


-----------------------------------------------------------------------------
(* Vocabulary of the properties *)

StrictlyIncreasingPositive(th) ==
    /\ Len(th) >= 1
    /\ \A i \in 1..Len(th) : th[i].v > 0 /\ (i > 1 => th[i-1].v < th[i].v)

NonNegativeFinite(g) ==
    \A rc \in Cells(g) : g[rc[1]][rc[2]] # NaN /\ g[rc[1]][rc[2]] >= 0

SameShape(g, h) ==
    /\ Len(g) = Len(h)
    /\ \A r \in 1..Len(g) : Len(g[r]) = Len(h[r])

\* the banding rule: category c is the one the rule gives depth d
BandingRule(d, th, c) ==
    /\ d = 0 => c = 0
    /\ \A i \in 1..Len(th) :
         ((IF i = 1 THEN 0 ELSE th[i-1].v) < d /\ d <= th[i].v) => c = i
    /\ d > th[Len(th)].v => c = Len(th) + 1

\* the threshold list the classify call works with
CallThresholds == DefaultIfNone(c_thresholds)

\* x < y, x <= y on doubles
FltLess(x, y) ==
    IF y.h = 0 THEN FALSE
    ELSE IF x.h = 0 THEN TRUE
    ELSE IF x.e # y.e THEN x.e < y.e
    ELSE IF x.h # y.h THEN x.h < y.h
    ELSE x.l < y.l
FltLe(x, y) == x = y \/ FltLess(x, y)

\* the significand h * 2^26 + l shifted right by d >= 0 bits:
\* <<high part, low part, fraction dropped>>
ShiftRight(h, l, d) ==
    IF d = 0 THEN <<h, l, FracZero>>
    ELSE IF d <= 26
    THEN <<h \div Pow2(d),
           (h % Pow2(d)) * Pow2(26 - d) + (l \div Pow2(d)),
           FracOf(l % Pow2(d), d, FracZero)>>
    ELSE IF d <= 53
    THEN <<0, h \div Pow2(d - 26),
           FracOf(h % Pow2(d - 26), d - 26,
                  IF l = 0 THEN FracZero ELSE FracBelow)>>
    ELSE <<0, 0, FracBelow>>

\* x + y
FltAdd(x, y) ==
    IF x.h = 0 THEN y
    ELSE IF y.h = 0 THEN x
    ELSE LET a == IF x.e >= y.e THEN x ELSE y
             b == IF x.e >= y.e THEN y ELSE x
             q == ShiftRight(b.h, b.l, a.e - b.e)
             lo == a.l + q[2]
         IN  FltRound(a.h + q[1] + (lo \div TwoP26), lo % TwoP26, a.e, q[3])

\* x - y for x >= y
FltSub(x, y) ==
    IF y.h = 0 THEN x
    ELSE IF x = y THEN FltZero
    ELSE LET d == x.e - y.e
             \* both significands in units of 2^(x.e - 2)
             xh == 4 * x.h + (x.l \div TwoP24)
             xl == (x.l % TwoP24) * 4
             q == IF d = 0
                  THEN <<4 * y.h + (y.l \div TwoP24), (y.l % TwoP24) * 4,
                         FracZero>>
                  ELSE IF d = 1
                  THEN <<2 * y.h + (y.l \div TwoP25), (y.l % TwoP25) * 2,
                         FracZero>>
                  ELSE ShiftRight(y.h, y.l, d - 2)
             \* x - (q + fraction) = (x - q - 1) + (1 - fraction)
             b == IF q[3] = FracZero THEN 0 ELSE 1
             fr == IF q[3] = FracBelow THEN FracAbove
                   ELSE IF q[3] = FracAbove THEN FracBelow
                   ELSE q[3]
             lo == xl - q[2] - b
             hh == xh - q[1] - (IF lo < 0 THEN 1 ELSE 0)
             ll == IF lo < 0 THEN lo + TwoP26 ELSE lo
         IN  IF hh >= TwoP26 THEN FltRound(hh, ll, x.e - 2, fr)
                             ELSE FltNormal(hh, ll, x.e - 2)

\* one unit in the last place of x > 0
FltUlp(x) == [e |-> x.e - 52, h |-> TwoP26, l |-> 0]

\* |x - y| is at most k units in the last place of ref (k <= 15)
FltClose(x, y, ref, k) ==
    IF ref.h = 0 THEN x = y
    ELSE FltLe(IF FltLess(x, y) THEN FltSub(y, x) ELSE FltSub(x, y),
               FltMul(k, FltUlp(ref)))

\* a row's fields by position: id, name, total, no flood, bands, flooded
LastRow == results[Len(results)]
TotalArea(row) == row[3][2]
NoFloodArea(row) == row[4][2]
FloodedArea(row) == row[Len(row)][2]
BandPositions(row) == 5..(Len(row) - 1)

\* acc + row[from] + ... + row[to], added from left to right
RECURSIVE SumFields(_, _, _, _)
SumFields(acc, row, from, to) ==
    IF from > to THEN acc
    ELSE SumFields(FltAdd(acc, row[from][2]), row, from + 1, to)

\* a row has been appended and masked_flood is the grid it was built from
RowBuilt == Len(results) >= 1 /\ n_mask >= 1

MaskError == "ValueError: Input shapes do not overlap raster"
UnitError == "ValueError: Unit must be one of: 'm2', 'km2', 'hectare', 'rai'"

-----------------------------------------------------------------------------
(* C1: on a grid of non-negative finite cells and a non-empty, strictly    *)
(* increasing, strictly positive threshold list, classify_flood_depth      *)
(* gives every cell the category of the banding rule: 0 for depth 0, i for *)
(* t[i-1] < depth <= t[i] (lower bound 0 for the first band), n+1 above    *)
(* the last threshold.                                                     *)
C1_BandingRule ==
    (/\ c_pc \in {"returned", "raised"}
     /\ StrictlyIncreasingPositive(CallThresholds)
     /\ NonNegativeFinite(depth_array))
    => /\ c_pc = "returned"
       /\ SameShape(c_result.value, depth_array)
       /\ \A rc \in Cells(depth_array) :
            BandingRule(depth_array[rc[1]][rc[2]], CallThresholds,
                        c_result.value[rc[1]][rc[2]])

C1_Witness ==
    /\ c_pc = "returned"
    /\ c_thresholds = << <<PyFloat(10), PyFloat(20)>> >>
    /\ depth_array = << <<20, 30>> >>
    /\ c_result.value = << <<2, 3>> >>

(* C2: for every grid (NaN and negative cells included) and every          *)
(* non-empty threshold list of length n, the returned grid has the shape   *)
(* of the input and every cell holds a category in 0..n+1.                 *)
C2_ShapeAndRange ==
    (c_pc \in {"returned", "raised"} /\ Len(CallThresholds) >= 1)
    => /\ c_pc = "returned"
       /\ SameShape(c_result.value, depth_array)
       /\ \A rc \in Cells(depth_array) :
            c_result.value[rc[1]][rc[2]] \in 0..(Len(CallThresholds) + 1)

C2_Witness ==
    /\ c_pc = "returned"
    /\ c_thresholds = << <<PyFloat(20), PyFloat(10)>> >>
    /\ depth_array = << <<NaN>>, <<-10>> >>
    /\ c_result.value = << <<0>>, <<0>> >>

(* C3: with a strictly increasing positive threshold list, a cell whose    *)
(* depth equals thresholds[i] gets category i (1-based: the band closed by *)
(* that threshold) and never the band above.                               *)
C3_BoundaryInLowerBand ==
    (c_pc = "returned" /\ StrictlyIncreasingPositive(CallThresholds))
    => \A rc \in Cells(depth_array) : \A i \in 1..Len(CallThresholds) :
         depth_array[rc[1]][rc[2]] = CallThresholds[i].v
         => /\ c_result.value[rc[1]][rc[2]] = i
            /\ c_result.value[rc[1]][rc[2]] # i + 1

C3_Witness ==
    /\ c_pc = "returned"
    /\ c_thresholds = << <<PyFloat(10), PyFloat(20)>> >>
    /\ depth_array = << <<10, 20>> >>
    /\ c_result.value = << <<1, 2>> >>


\* the divisor the unit table of the specification gives each unit
TableDivisor(u) ==
    CASE u = "m2" -> 1
      [] u = "km2" -> 1000000
      [] u = "hectare" -> 10000
      [] u = "rai" -> 1600

\* the area of one cell in the unit: |scale-x x scale-y| / divisor(unit)
TablePixelArea ==
    IF unit = "m2"
    THEN FltFromInt(Abs(raster_transform.a * raster_transform.e))
    ELSE FltDiv(Abs(raster_transform.a * raster_transform.e),
                TableDivisor(unit))

\* (cell count) x pixel area
TableArea(count) == FltMul(count, TablePixelArea)

\* the m2 value of a count, (cell count) x |scale-x x scale-y|, divided by
\* the divisor of the unit
SquareMetresByDivisor(count) ==
    FltDiv(count * Abs(raster_transform.a * raster_transform.e),
           TableDivisor(unit))

NumCells(g) == Cardinality(Cells(g))

(* C4 as stated: with strictly increasing positive thresholds, in every    *)
(* row produced no_flood_area plus the sum of the band areas (the n        *)
(* threshold bands and the '>last' band) equals total_area, and            *)
(* total_flooded_area equals total_area minus no_flood_area, the sums and  *)
(* the difference being those of the doubles in the row.                   *)
C4_ExactConservation ==
    StrictlyIncreasingPositive(thresholds)
    => \A j \in 1..Len(results) :
         LET row == results[j]
         IN  /\ Len(row) = Len(thresholds) + 6
             /\ SumFields(NoFloodArea(row), row, 5, Len(row) - 1)
                  = TotalArea(row)
             /\ FltLe(NoFloodArea(row), TotalArea(row))
             /\ FloodedArea(row) = FltSub(TotalArea(row), NoFloodArea(row))

(* C4 amended: with strictly increasing positive thresholds, in every row  *)
(* produced no_flood_area plus the sum of the band areas (the n threshold  *)
(* bands and the '>last' band) equals total_area up to floating-point      *)
(* rounding, within n + 4 units in the last place of total_area, and       *)
(* total_flooded_area equals total_area minus no_flood_area within 4 units *)
(* in the last place of total_area.                                        *)
C4_AreaConservation ==
    StrictlyIncreasingPositive(thresholds)
    => \A j \in 1..Len(results) :
         LET row == results[j]
         IN  /\ Len(row) = Len(thresholds) + 6
             /\ FltClose(SumFields(NoFloodArea(row), row, 5, Len(row) - 1),
                         TotalArea(row), TotalArea(row), Len(thresholds) + 4)
             /\ FltLe(NoFloodArea(row), TotalArea(row))
             /\ FltClose(FloodedArea(row),
                         FltSub(TotalArea(row), NoFloodArea(row)),
                         TotalArea(row), 4)

\* the row of ScenarioGrid under km2: the bands add up to
\* 0.0009000000000000002 and total_area is 0.0009000000000000001
C4_Witness ==
    /\ RowBuilt
    /\ masked_flood = ScenarioGrid
    /\ thresholds = DefaultThresholds
    /\ unit = "km2"
    /\ raster_transform = [a |-> 10, e |-> -10]
    /\ NoFloodArea(LastRow).h > 0
    /\ FloodedArea(LastRow).h > 0
    /\ \A p \in BandPositions(LastRow) : LastRow[p][2].h > 0
    /\ TotalArea(LastRow) = [e |-> -63, h |-> 123695058, l |-> 8375187]
    /\ SumFields(NoFloodArea(LastRow), LastRow, 5, Len(LastRow) - 1)
         = [e |-> -63, h |-> 123695058, l |-> 8375188]

(* C5 as stated: every area field of a row equals (cell count of the      *)
(* field) x |scale-x x scale-y| / divisor(unit), divisors m2 1, km2        *)
(* 1000000, hectare 10000, rai 1600: the value under a unit is the m2      *)
(* value divided by the unit's divisor (one flooded cell of 1600 m2 is 1   *)
(* rai).                                                                   *)
C5_ExactConversion ==
    RowBuilt
    => LET row == LastRow
           mc == masked_classified
       IN  /\ TotalArea(row) = SquareMetresByDivisor(NumCells(masked_flood))
           /\ NoFloodArea(row) = SquareMetresByDivisor(CategoryCount(mc, 0))
           /\ FloodedArea(row)
                = SquareMetresByDivisor(NumCells(mc) - CategoryCount(mc, 0))
           /\ Len(row) = Len(thresholds) + 6
              => \A i \in 1..(Len(thresholds) + 1) :
                   row[4 + i][2] = SquareMetresByDivisor(CategoryCount(mc, i))

(* C5 amended: every area field of a row is the double product (cell count *)
(* of the field) x pixel area, pixel area being the double                 *)
(* |scale-x x scale-y| / divisor(unit), divisors m2 1, km2 1000000,        *)
(* hectare 10000, rai 1600: the value under a unit is the m2 value divided *)
(* by the unit's divisor up to floating-point rounding (within 4 units in  *)
(* the last place), and exactly so under m2 (one flooded cell of 1600 m2   *)
(* is exactly 1 rai).                                                      *)
C5_UnitConversion ==
    RowBuilt
    => LET row == LastRow
           mc == masked_classified
       IN  /\ TotalArea(row) = TableArea(NumCells(masked_flood))
           /\ NoFloodArea(row) = TableArea(CategoryCount(mc, 0))
           /\ FloodedArea(row) = TableArea(NumCells(mc) - CategoryCount(mc, 0))
           /\ Len(row) = Len(thresholds) + 6
              => \A i \in 1..(Len(thresholds) + 1) :
                   row[4 + i][2] = TableArea(CategoryCount(mc, i))
           /\ LET pa == TablePixelArea
              IN  \A p \in 3..Len(row) :
                    \E k \in 0..NumCells(masked_flood) :
                       /\ row[p][2] = FltMul(k, pa)
                       /\ LET byDivisor == SquareMetresByDivisor(k)
                          IN  /\ FltClose(row[p][2], byDivisor, byDivisor, 4)
                              /\ unit = "m2" => row[p][2] = byDivisor

C5_Witness ==
    /\ RowBuilt
    /\ unit = "rai"
    /\ raster_transform = [a |-> 40, e |-> -40]
    /\ masked_flood = << <<10>> >>
    /\ thresholds = <<PyFloat(10), PyFloat(20)>>
    /\ FloodedArea(LastRow) = FltFromInt(1)
    /\ LastRow[5] = <<"0-0.1 m (rai)", FltFromInt(1)>>

\* nine cells of 100 m2 under km2: 9 x (100 / 1000000) is
\* 0.0009000000000000001 and 900 / 1000000 is 0.0009
C5_WitnessRounded ==
    /\ RowBuilt
    /\ unit = "km2"
    /\ raster_transform = [a |-> 10, e |-> -10]
    /\ masked_flood = ScenarioGrid
    /\ TotalArea(LastRow) = [e |-> -63, h |-> 123695058, l |-> 8375187]
    /\ SquareMetresByDivisor(9) = [e |-> -63, h |-> 123695058, l |-> 8375186]

(* C6: thresholds [0.5, 1.0, 2.0, 3.0], unit m2, pixel area 100 and the    *)
(* clipped grid [[0,0.3,0.6],[1.5,2.5,3.5],[0,0,0]] give a row with        *)
(* no_flood 400, each of the bands 0-0.5, 0.5-1.0, 1.0-2.0, 2.0-3.0, >3.0  *)
(* 100, total_flooded 500 and total_area 900.                              *)
C6_Scenario ==
    (/\ RowBuilt
     /\ thresholds = <<PyFloat(50), PyFloat(100), PyFloat(200), PyFloat(300)>>
     /\ unit = "m2"
     /\ raster_transform = [a |-> 10, e |-> -10]
     /\ masked_flood = ScenarioGrid)
    => SubSeq(LastRow, 3, Len(LastRow)) =
         << <<"total_area (m2)", FltFromInt(900)>>,
            <<"no_flood_area (m2)", FltFromInt(400)>>,
            <<"0-0.5 m (m2)", FltFromInt(100)>>,
            <<"0.5-1.0m (m2)", FltFromInt(100)>>,
            <<"1.0-2.0m (m2)", FltFromInt(100)>>,
            <<"2.0-3.0m (m2)", FltFromInt(100)>>,
            <<">3.0 m (m2)", FltFromInt(100)>>,
            <<"total_flooded_area (m2)", FltFromInt(500)>> >>

C6_Witness ==
    /\ RowBuilt
    /\ thresholds_arg
         = << <<PyFloat(50), PyFloat(100), PyFloat(200), PyFloat(300)>> >>
    /\ unit = "m2"
    /\ raster_transform = [a |-> 10, e |-> -10]
    /\ masked_flood = ScenarioGrid
    /\ masked_classified = << <<0, 1, 2>>, <<3, 4, 5>>, <<0, 0, 0>> >>
    /\ pc = "done"


\* the identifier and name the row of the polygon at position j must carry
PolygonId(j) == VillageGet(shapefile, j, "ADM3_EN", j - 1)
PolygonName(j) ==
    VillageGet(shapefile, j, "ADM3_TH", "Village_" \o ToString(j - 1))

\* rows 1..Len(rs) of rs are the rows of polygons 1..Len(rs), in order
RowsInPolygonOrder(rs) ==
    \A j \in 1..Len(rs) :
        /\ rs[j][1] = <<"village_id", PolygonId(j)>>
        /\ rs[j][2] = <<"village_name", PolygonName(j)>>

(* C7: when the call completes on polygons p[1..k], the table has exactly  *)
(* k rows and row j is the record computed from p[j]: rows are appended in *)
(* polygon order (each step adds the row built from the polygon just       *)
(* clipped, after the rows already there), none reordered, dropped or      *)
(* duplicated.                                                             *)
C7_RowsInInputOrder ==
    /\ [](/\ RowsInPolygonOrder(results)
          /\ pc = "done"
             => /\ returned = <<results>>
                /\ Len(results) = Len(shapefile.rows))
    /\ [][results' # results
          => /\ idx' = idx + 1 /\ Len(results') = idx'
             /\ SubSeq(results', 1, Len(results)) = results
             /\ results'[idx'] =
                  VillageResult(shapefile, idx', masked_classified',
                                thresholds, pixel_area, unit_suffix)
             /\ masked_classified' =
                  classify_flood_depth(masked_flood', <<thresholds>>).value
       ]_vars

C7_Witness ==
    /\ pc = "done"
    /\ Len(returned[1]) = 2
    /\ shapefile.columns = {"ADM3_EN"}
    /\ returned[1][1][1][2] = "EN1"
    /\ returned[1][2][1][2] = "EN2"
    /\ returned[1][1][3][2] # returned[1][2][3][2]

(* C8: an unknown unit fails before any raster or polygon I/O: when the    *)
(* error is raised the polygon file has not been read, the raster has not  *)
(* been opened or read, and no polygon has been clipped.                   *)
C8_InvalidUnitBeforeIO ==
    raised = UnitError
    => /\ villages_gdf = <<>>
       /\ src = "unopened"
       /\ flood_data = FALSE
       /\ n_mask = 0

(* C9: an error signalled by the clipping collaborator for polygon j (no   *)
(* overlap) is caught and the run continues: the error of one polygon      *)
(* never ends the call.                                                    *)
C9_ClipErrorIsolated == ~(pc = "raised" /\ raised = MaskError)

(* C10: when the clipping collaborator returns an empty grid (zero cells)  *)
(* and the threshold list is not empty, no error is raised and the row of  *)
(* that polygon has total_area, no_flood_area, every band area and         *)
(* total_flooded_area all zero.                                            *)
C10_EmptyGridAllZero ==
    (n_mask >= 1 /\ masked_flood = <<>> /\ thresholds # <<>>)
    => /\ raised \in {"none", MaskError}
       /\ raised = "none" => Len(results) = idx
       /\ Len(results) >= 1
          => \A p \in 3..Len(LastRow) : LastRow[p][2] = FltZero

C10_Witness ==
    /\ pc = "done"
    /\ n_mask = 2
    /\ masked_flood = <<>>
    /\ Len(results) = 2
    /\ Len(LastRow) = 8
    /\ TotalArea(LastRow) = FltZero
    /\ TotalArea(results[1]).h > 0

-----------------------------------------------------------------------------
\* the list is sorted ascending with distinct entries
Ascending(th) == \A i \in 2..Len(th) : th[i-1].v < th[i].v

\* the threshold list the aggregator call was given (None is the default)
GivenThresholds == DefaultIfNone(thresholds_arg)

\* no polygon file read, raster neither opened nor read, no polygon clipped
NoIO ==
    /\ villages_gdf = <<>>
    /\ src = "unopened"
    /\ flood_data = FALSE
    /\ n_mask = 0

(* C11: an empty or non-ascending threshold list makes the call fail with  *)
(* a configuration error before any raster or polygon I/O, whatever the    *)
(* polygon sequence: with such a list no I/O is ever done and no table is  *)
(* ever returned.                                                          *)
C11_InvalidThresholdsBeforeIO ==
    (GivenThresholds = <<>> \/ ~Ascending(GivenThresholds))
    => /\ NoIO
       /\ pc # "done"
       /\ returned = <<>>

\* the identifier and name attributes of the polygon at position j
HasIdAttribute == "ADM3_EN" \in shapefile.columns
HasNameAttribute == "ADM3_TH" \in shapefile.columns

(* C12: the row of the polygon at position j (counted from 0) carries the  *)
(* polygon's identifier attribute when it has one and otherwise j, and the *)
(* polygon's name attribute when it has one and otherwise 'Village_j';     *)
(* each fallback depends only on its own attribute.                        *)
C12_IdentifierFallback ==
    \A p \in 1..Len(results) :
        /\ results[p][1][1] = "village_id"
        /\ results[p][2][1] = "village_name"
        /\ IF HasIdAttribute
           THEN results[p][1][2] = shapefile.rows[p].ADM3_EN
           ELSE results[p][1][2] = p - 1
        /\ IF HasNameAttribute
           THEN results[p][2][2] = shapefile.rows[p].ADM3_TH
           ELSE results[p][2][2] = "Village_" \o ToString(p - 1)

C12_Witness ==
    /\ pc = "done"
    /\ shapefile.columns = {"ADM3_TH"}
    /\ Len(returned[1]) = 2
    /\ returned[1][2][1] = <<"village_id", 1>>
    /\ returned[1][2][2] = <<"village_name", "TH2">>

C12_WitnessNameFallback ==
    /\ pc = "done"
    /\ shapefile.columns = {"ADM3_EN"}
    /\ Len(returned[1]) = 2
    /\ returned[1][2][1] = <<"village_id", "EN2">>
    /\ returned[1][2][2] = <<"village_name", "Village_1">>

\* the column names of a row, in order
ColumnNames(row) == [p \in 1..Len(row) |-> row[p][1]]

\* the name of band column i (1-based) of the output format: '0-t[0] m' for
\* the first band, 't[i-1]-t[i]m' for band i, with the unit suffix
BandColumn(th, i) ==
    IF i = 1
    THEN "0-" \o FmtThreshold(th[1]) \o " m" \o unit_suffix
    ELSE FmtThreshold(th[i-1]) \o "-" \o FmtThreshold(th[i]) \o "m"
             \o unit_suffix

\* the columns of the output format for the threshold list th
ExpectedColumns(th) ==
    <<"village_id", "village_name", "total_area" \o unit_suffix,
      "no_flood_area" \o unit_suffix>>
    \o [i \in 1..Len(th) |-> BandColumn(th, i)]
    \o <<">" \o FmtThreshold(th[Len(th)]) \o " m" \o unit_suffix,
         "total_flooded_area" \o unit_suffix>>

\* the number of cells of masked_classified holding category k
CellsOfCategory(k) ==
    Cardinality({rc \in Cells(masked_classified) :
                    masked_classified[rc[1]][rc[2]] = k})

(* C13: for a strictly increasing threshold list of length n every row of  *)
(* a run has the same columns in the same order: identifier, name, total   *)
(* area, no-flood area, one band column per threshold in threshold order   *)
(* ('0-t[0]', then 't[i-1]-t[i]'), the '>t[n-1]' band, total flooded area; *)
(* the n+1 band columns are pairwise distinct and band column i (from 1)   *)
(* holds the area of category i.                                           *)
C13_ColumnSet ==
    (thresholds # <<>> /\ Ascending(thresholds))
    => /\ \A j \in 1..Len(results) :
            /\ ColumnNames(results[j]) = ExpectedColumns(thresholds)
            /\ Len(results[j]) = Len(thresholds) + 6
            /\ \A p, q \in 1..Len(results[j]) :
                 p # q => results[j][p][1] # results[j][q][1]
       /\ RowBuilt
          => \A i \in 1..(Len(thresholds) + 1) :
               LastRow[4 + i][2] = TableArea(CellsOfCategory(i))

C13_Witness ==
    /\ pc = "done"
    /\ thresholds = <<PyFloat(10), PyFloat(20)>>
    /\ unit = "km2"
    /\ Len(results) = 2
    /\ ColumnNames(results[1]) = ColumnNames(results[2])
    /\ SubSeq(ColumnNames(LastRow), 5, 7)
         = <<"0-0.1 m (km2)", "0.1-0.2m (km2)", ">0.2 m (km2)">>
    /\ masked_flood = << <<20>> >>
    /\ LastRow[6][2].h > 0
    /\ LastRow[5][2] = FltZero

\* the notebook's call: [0.1, 0.25, 0.5, 0.75, 1.0, 1.5, 2] and unit rai
C13_WitnessNotebook ==
    /\ pc = "done"
    /\ thresholds = NotebookThresholds
    /\ unit = "rai"
    /\ Len(results) = 1
    /\ masked_flood = ScenarioGrid
    /\ SubSeq(ColumnNames(LastRow), 5, 12)
         = <<"0-0.1 m (rai)", "0.1-0.25m (rai)", "0.25-0.5m (rai)",
             "0.5-0.75m (rai)", "0.75-1.0m (rai)", "1.0-1.5m (rai)",
             "1.5-2m (rai)", ">2 m (rai)">>
    /\ LastRow[12][2].h > 0

\* a list of ints, [1, 2]
C13_WitnessInts ==
    /\ pc = "done"
    /\ thresholds = IntThresholds
    /\ unit = "m2"
    /\ Len(results) = 1
    /\ masked_flood = ScenarioGrid
    /\ SubSeq(ColumnNames(LastRow), 5, 7)
         = <<"0-1 m (m2)", "1-2m (m2)", ">2 m (m2)">>

-----------------------------------------------------------------------------
\* a call of calculate_flood_area_by_village has ended
AggEnded == pc \in {"done", "raised"}

\* a call of classify_flood_depth has ended
ClassifyEnded == c_pc \in {"returned", "raised"}

(* C14: two runs of the aggregator on identical inputs (same raster, same  *)
(* polygons, same thresholds, same unit) end the same way, with identical   *)
(* tables, whatever runs came between them: nothing a run leaves behind     *)
(* reaches a later run.                                                     *)
C14_Deterministic ==
    AggEnded
    => \A k \in 1..Len(calls) :
         calls[k].thresholds = thresholds_arg
         => /\ calls[k].returned = returned
            /\ calls[k].raised = raised

C14_Witness ==
    /\ pc = "done"
    /\ Len(calls) = 2
    /\ calls[1].thresholds = thresholds_arg
    /\ calls[2].thresholds # thresholds_arg
    /\ calls[2].returned # returned
    /\ calls[1].returned = returned
    /\ Len(returned[1]) = 2
    /\ FloodedArea(returned[1][1]).h > 0
    /\ TotalArea(returned[1][2]) = FltZero

\* the two ways of asking for the default thresholds
AsksDefault(arg) == arg \in {<<>>, <<DefaultThresholds>>}

(* C15: in any sequence of calls, classify_flood_depth and                 *)
(* calculate_flood_area_by_village called with thresholds omitted give      *)
(* exactly what they give called with [0.5, 1.0, 2.0, 3.0]; a call with     *)
(* thresholds omitted works with that list whatever the earlier calls were  *)
(* given.                                                                   *)
C15_DefaultThresholds ==
    /\ (pc \notin {"idle", "L83"} /\ thresholds_arg = <<>>)
       => thresholds = <<PyFloat(50), PyFloat(100), PyFloat(200), PyFloat(300)>>
    /\ (AggEnded /\ AsksDefault(thresholds_arg))
       => \A k \in 1..Len(calls) :
            AsksDefault(calls[k].thresholds)
            => /\ calls[k].returned = returned
               /\ calls[k].raised = raised
    /\ (ClassifyEnded /\ AsksDefault(c_thresholds))
       => /\ c_result.raised = "none"
          /\ \A k \in 1..Len(calls) :
               AsksDefault(calls[k].thresholds)
               => calls[k].result = c_result

C15_Witness ==
    /\ pc = "done"
    /\ Len(calls) = 2
    /\ calls[1].thresholds = << <<PyFloat(10), PyFloat(20)>> >>
    /\ calls[2].thresholds = <<>>
    /\ thresholds_arg = <<DefaultThresholds>>
    /\ masked_flood = ScenarioGrid
    /\ Len(returned[1]) = 1
    /\ calls[2].returned = returned
    /\ calls[1].returned # returned

C15_WitnessClassify ==
    /\ c_pc = "returned"
    /\ Len(calls) = 2
    /\ calls[1].thresholds = << <<PyFloat(10), PyFloat(20)>> >>
    /\ calls[2].thresholds = <<DefaultThresholds>>
    /\ c_thresholds = <<>>
    /\ depth_array = ScenarioGrid
    /\ c_result.value = << <<0, 1, 2>>, <<3, 4, 5>>, <<0, 0, 0>> >>
    /\ calls[2].result = c_result
    /\ calls[1].result # c_result

-----------------------------------------------------------------------------
\* the cells of masked_flood that are NaN or negative, zero, positive
NoDataCells ==
    {rc \in Cells(masked_flood) :
        masked_flood[rc[1]][rc[2]] = NaN \/ masked_flood[rc[1]][rc[2]] < 0}
DryCells == {rc \in Cells(masked_flood) : masked_flood[rc[1]][rc[2]] = 0}
WetCells == {rc \in Cells(masked_flood) : masked_flood[rc[1]][rc[2]] > 0}

(* C16: with a strictly increasing positive threshold list, a cell whose   *)
(* depth is NaN or negative gets category 0, and the aggregator counts it  *)
(* in no_flood_area (with the cells of depth 0) and not in                 *)
(* total_flooded_area (the cells of positive depth).                       *)
C16_NoDataIsNoFlood ==
    (RowBuilt /\ StrictlyIncreasingPositive(thresholds))
    => /\ \A rc \in NoDataCells : masked_classified[rc[1]][rc[2]] = 0
       /\ NoFloodArea(LastRow)
            = TableArea(Cardinality(NoDataCells) + Cardinality(DryCells))
       /\ FloodedArea(LastRow) = TableArea(Cardinality(WetCells))

C16_Witness ==
    /\ RowBuilt
    /\ masked_flood = NoDataGrid
    /\ thresholds = <<PyFloat(10), PyFloat(20)>>
    /\ unit = "m2"
    /\ raster_transform = [a |-> 10, e |-> -10]
    /\ masked_classified = << <<0, 0>>, <<0, 2>> >>
    /\ NoFloodArea(LastRow) = FltFromInt(300)
    /\ FloodedArea(LastRow) = FltFromInt(100)

(* C17: total_area of a row is (number of cells of the clipped grid) x     *)
(* pixel area whatever the cells hold: every cell of the clipped extent is *)
(* counted exactly once, NaN, negative and dry cells included.             *)
C17_TotalAreaCountsEveryCell ==
    RowBuilt
    => /\ TotalArea(LastRow) = TableArea(NumCells(masked_flood))
       /\ TotalArea(LastRow)
            = TableArea(Cardinality(NoDataCells) + Cardinality(DryCells)
                          + Cardinality(WetCells))

C17_Witness ==
    /\ RowBuilt
    /\ masked_flood = NoDataGrid
    /\ thresholds = <<PyFloat(20), PyFloat(10)>>
    /\ unit = "hectare"
    /\ raster_transform = [a |-> 10, e |-> -10]
    /\ TotalArea(LastRow) = FltDiv(4, 100)
    /\ Len(results) = 2
    /\ TotalArea(results[1]) = FltDiv(9, 100)

-----------------------------------------------------------------------------
\* list new is list old with threshold i (1-based) raised, nothing else changed
IsRaise(old, new, i) ==
    /\ Len(old) = Len(new)
    /\ i \in 1..Len(old)
    /\ old[i].v < new[i].v
    /\ \A j \in 1..Len(old) : j # i => old[j] = new[j]

(* C18: when one threshold t[i] of a strictly increasing positive list is  *)
(* raised to t' (the list still strictly increasing) and the same array is *)
(* classified again, exactly the cells with t[i] < depth <= t' change      *)
(* category, from the band above t[i] to the band that t[i] closes; every  *)
(* other cell keeps its category and no cell of positive depth gets        *)
(* category 0.                                                             *)
C18_RaisingAThreshold ==
    c_pc = "returned"
    => \A k \in 1..Len(calls) :
         LET old == DefaultIfNone(calls[k].thresholds)
             new == DefaultIfNone(c_thresholds)
         IN  \A i \in 1..Len(new) :
               (/\ StrictlyIncreasingPositive(old)
                /\ StrictlyIncreasingPositive(new)
                /\ IsRaise(old, new, i))
               => \A rc \in Cells(depth_array) :
                    LET d == depth_array[rc[1]][rc[2]]
                        before == calls[k].result.value[rc[1]][rc[2]]
                        after == c_result.value[rc[1]][rc[2]]
                    IN  /\ IF d # NaN /\ old[i].v < d /\ d <= new[i].v
                           THEN before = i + 1 /\ after = i
                           ELSE after = before
                        /\ (d # NaN /\ d > 0) => after # 0

C18_Witness ==
    /\ c_pc = "returned"
    /\ Len(calls) = 1
    /\ calls[1].thresholds = <<>>
    /\ c_thresholds
         = << <<PyFloat(50), PyFloat(150), PyFloat(200), PyFloat(300)>> >>
    /\ depth_array = ScenarioGrid
    /\ calls[1].result.value = << <<0, 1, 2>>, <<3, 4, 5>>, <<0, 0, 0>> >>
    /\ c_result.value = << <<0, 1, 2>>, <<2, 4, 5>>, <<0, 0, 0>> >>

-----------------------------------------------------------------------------
(* C19: for every non-empty threshold list classify_flood_depth accepts    *)
(* (zero or negative thresholds and unsorted lists included), every cell   *)
(* whose depth is exactly 0 ends with category 0.                          *)
C19_ZeroDepthIsCategoryZero ==
    (c_pc = "returned" /\ Len(CallThresholds) >= 1)
    => \A rc \in Cells(depth_array) :
         depth_array[rc[1]][rc[2]] = 0 => c_result.value[rc[1]][rc[2]] = 0

(* C20: when calculate_flood_area_by_village ends with an error (invalid   *)
(* unit, or a failure while clipping or classifying a polygon) the caller  *)
(* gets no table: the rows accumulated so far are never returned, and a    *)
(* table that is returned has a row for every polygon.                     *)
C20_NoPartialOutput ==
    /\ (pc = "raised" \/ raised # "none") => returned = <<>>
    /\ returned # <<>>
       => /\ pc = "done"
          /\ raised = "none"
          /\ Len(returned[1]) = Len(shapefile.rows)

C20_Witness ==
    /\ pc = "raised"
    /\ raised = MaskError
    /\ Len(shapefile.rows) = 2
    /\ Len(results) = 1
    /\ FloodedArea(results[1]).h > 0
    /\ returned = <<>>

C20_WitnessInvalidUnit ==
    /\ pc = "raised"
    /\ raised = UnitError
    /\ unit = "acre"
    /\ Len(shapefile.rows) = 2
    /\ returned = <<>>

-----------------------------------------------------------------------------
\* the sum of the band columns actually present in a row
BandSum(row) == SumFields(FltZero, row, 5, Len(row) - 1)

(* C21 as stated: area conservation for every non-empty threshold list,    *)
(* strictly increasing or not (unsorted, negative, or with repeated values *)
(* so that two band columns get the same name and the later overwrites the *)
(* earlier): in every row no_flood_area plus the sum of the band columns   *)
(* present in the row equals total_area, and total_flooded_area equals the *)
(* sum of those band columns, the sums being those of the doubles in the   *)
(* row.                                                                    *)
C21_ExactConservationAnyList ==
    thresholds # <<>>
    => \A j \in 1..Len(results) :
         LET row == results[j]
         IN  /\ FltAdd(NoFloodArea(row), BandSum(row)) = TotalArea(row)
             /\ FloodedArea(row) = BandSum(row)

(* C21 amended: area conservation for every non-empty threshold list of    *)
(* length n, strictly increasing or not (unsorted, negative, or with       *)
(* repeated values so that two band columns get the same name and the      *)
(* later overwrites the earlier): in every row no_flood_area plus the sum  *)
(* of the band columns present in the row equals total_area, and           *)
(* total_flooded_area equals the sum of those band columns, both up to     *)
(* floating-point rounding: within n + 4 units in the last place of        *)
(* total_area.                                                             *)
C21_ConservationAnyList ==
    thresholds # <<>>
    => \A j \in 1..Len(results) :
         LET row == results[j]
         IN  /\ FltClose(FltAdd(NoFloodArea(row), BandSum(row)),
                         TotalArea(row), TotalArea(row), Len(thresholds) + 4)
             /\ FltClose(FloodedArea(row), BandSum(row), TotalArea(row),
                         Len(thresholds) + 4)

C21_Witness ==
    /\ pc = "done"
    /\ thresholds = CollidingThresholds
    /\ unit = "m2"
    /\ raster_transform = [a |-> 10, e |-> -10]
    /\ masked_flood = NoDataGrid
    /\ masked_classified = << <<0, 0>>, <<0, 4>> >>
    /\ Len(LastRow) = 9
    /\ LastRow[6] = <<"0.1-0.2m (m2)", FltFromInt(100)>>
    /\ NoFloodArea(LastRow) = FltFromInt(300)
    /\ FloodedArea(LastRow) = FltFromInt(100)

C21_WitnessNegative ==
    /\ pc = "done"
    /\ thresholds = <<PyFloat(20), PyFloat(-10)>>
    /\ masked_flood = NoDataGrid
    /\ masked_classified = << <<0, 0>>, <<3, 3>> >>
    /\ NoFloodArea(LastRow).h > 0
    /\ FloodedArea(LastRow) = LastRow[7][2]

\* a row of ScenarioGrid under km2 whose band columns do not add up exactly
\* to total_flooded_area
C21_WitnessRounded ==
    /\ pc = "done"
    /\ unit = "km2"
    /\ raster_transform = [a |-> 10, e |-> -10]
    /\ masked_flood = ScenarioGrid
    /\ FloodedArea(LastRow) # BandSum(LastRow)

-----------------------------------------------------------------------------
(* C22: the raster handle opened by calculate_flood_area_by_village is     *)
(* closed on every exit path (normal return, invalid unit, an error while  *)
(* clipping or classifying a polygon), every clip request is issued while  *)
(* the handle is open, and a closed handle is never used or reopened by    *)
(* the call.                                                               *)
C22_HandleClosedOnExit ==
    /\ [](AggEnded => src = "closed")
    /\ [][n_mask' # n_mask => (n_mask' = n_mask + 1 /\ src = "open")]_vars
    /\ [][src = "closed" => (src' = "closed" /\ n_mask' = n_mask)]_vars

C22_Witness ==
    /\ pc = "raised"
    /\ raised = "IndexError"
    /\ thresholds = <<>>
    /\ n_mask = 1
    /\ masked_flood = NoDataGrid
    /\ src = "closed"

C22_WitnessReturn ==
    /\ pc = "done"
    /\ n_mask = 2
    /\ Len(returned[1]) = 2
    /\ src = "closed"

C22_WitnessClipError ==
    /\ pc = "raised"
    /\ raised = MaskError
    /\ n_mask = 2
    /\ src = "closed"

C22_WitnessInvalidUnit ==
    /\ pc = "raised"
    /\ raised = UnitError
    /\ flood_data = TRUE
    /\ n_mask = 0
    /\ src = "closed"

====
